---- MODULE Spec2Model ----
(***************************************************************************)
(* Model of mmacommon.util: imageio (the base64 codec, the data-URL parser *)
(* and builder, the ndarray byte codec, the image/array bridge, the file   *)
(* and URL adapters), filesys (folder and file helpers, run by two         *)
(* processes on one file system) and orbitio (the OrbitIO reader/writer).  *)
(*                                                                         *)
(* Representation.  A text (Python str) is a sequence of one-character     *)
(* strings, a bytes object is a sequence of integers 0..255, an ndarray is *)
(* a record [dtype, shape, data] with data the flattened (C order)         *)
(* elements.  The outcome of a call is a record [ok, val, err]: ok = TRUE  *)
(* and val the returned value, or ok = FALSE and err the raised exception. *)
(***************************************************************************)
EXTENDS Integers, Sequences, FiniteSets, TLC

VARIABLES
    numpy_savez_kw, \* the installed numpy: TRUE iff savez_compressed has an
                    \* allow_pickle keyword parameter (setup.py: numpy>=1.11.0)
    fn,             \* name of the function called last ("" before any call)
    arg,            \* the arguments of that call
    ret,            \* its outcome
    prev,           \* the call whose return value was passed on as arg, if any
    open_handles,   \* what the last call opened and has not closed
    disk,           \* imageio: the files save_raw_image / load_raw_image see
    heap,           \* the dict and list objects OrbitIO and its caller hold
    heap0,          \* the heap when the last OrbitIO call began
    in_data,        \* OrbitIO.__in_data, a reference into the heap
    response,       \* OrbitIO.__response, a reference into the heap
    succeeded,      \* TRUE once a write or write_geo call has returned
    ncalls,         \* number of OrbitIO calls made
    fs,             \* filesys: what each path of the file system is
    proc,           \* filesys: per process, its call and its position in it
    done_req        \* filesys: the call completed last

imageio_vars == <<numpy_savez_kw, prev, open_handles, disk>>
orbitio_vars == <<heap, heap0, in_data, response, succeeded, ncalls>>
filesys_vars == <<fs, proc, done_req>>
vars == <<fn, arg, ret, imageio_vars, orbitio_vars, filesys_vars>>

----------------------------------------------------------------------------
(* Bounds of the model *)

\* longest text, in tokens, handed to parse_data_url
MaxTokens == 5
\* longest text, in characters, handed to base64decode
MaxB64Len == 5
\* longest raw byte payload / image file, in bytes
MaxFileLen == 3
\* largest number of elements of an input ndarray
MaxElems == 3

----------------------------------------------------------------------------
(* Outcomes *)

NoError == [type |-> "", msg |-> "", detail |-> <<>>]
Ok(v) == [ok |-> TRUE, val |-> v, err |-> NoError]
Raise(type, msg, detail) ==
    [ok |-> FALSE, val |-> <<>>, err |-> [type |-> type, msg |-> msg, detail |-> detail]]
NoCall == [fn |-> "", arg |-> <<>>]

----------------------------------------------------------------------------
(* Python str / bytes primitives used by the module *)

\* s.startswith(p)
StartsWith(s, p) == Len(s) >= Len(p) /\ SubSeq(s, 1, Len(p)) = p

\* s[:n]
Prefix(s, n) == SubSeq(s, 1, IF Len(s) < n THEN Len(s) ELSE n)

\* s[n:]
Drop(s, n) == SubSeq(s, n + 1, Len(s))

\* s.endswith(p)
EndsWith(s, p) == Len(s) >= Len(p) /\ SubSeq(s, Len(s) - Len(p) + 1, Len(s)) = p

\* s.split(sep) for a one-character sep: the list of the parts between the seps
RECURSIVE SplitFrom(_, _, _, _)
SplitFrom(s, sep, i, cur) ==
    IF i > Len(s) THEN <<cur>>
    ELSE IF s[i] = sep THEN <<cur>> \o SplitFrom(s, sep, i + 1, <<>>)
    ELSE SplitFrom(s, sep, i + 1, Append(cur, s[i]))

Split(s, sep) == SplitFrom(s, sep, 1, <<>>)

\* s.rsplit(sep, 1): split once, at the last sep
RSplit1(s, sep) ==
    LET at == {i \in 1..Len(s) : s[i] = sep}
    IN  IF at = {} THEN <<s>>
        ELSE LET k == CHOOSE i \in at : \A j \in at : j <= i
             IN  <<SubSeq(s, 1, k - 1), SubSeq(s, k + 1, Len(s))>>

\* s.replace(old, ''): every non-overlapping occurrence, left to right
RECURSIVE Remove(_, _)
Remove(s, old) ==
    IF Len(s) = 0 THEN <<>>
    ELSE IF StartsWith(s, old) THEN Remove(Drop(s, Len(old)), old)
    ELSE <<s[1]>> \o Remove(Tail(s), old)

\* concatenation of a sequence of texts
RECURSIVE Concat(_)
Concat(parts) == IF Len(parts) = 0 THEN <<>> ELSE Head(parts) \o Concat(Tail(parts))

----------------------------------------------------------------------------
(* Literals *)

S_data     == <<"d", "a", "t", "a", ":">>
S_image    == <<"i", "m", "a", "g", "e">>
S_ndarray  == <<"n", "d", "a", "r", "r", "a", "y">>
S_base64   == <<"b", "a", "s", "e", "6", "4">>
S_base32   == <<"b", "a", "s", "e", "3", "2">>
S_text     == <<"t", "e", "x", "t">>
S_jpg      == <<"j", "p", "g">>
S_gif      == <<"g", "i", "f">>
S_png      == <<"p", "n", "g">>
S_bmp      == <<"b", "m", "p">>
S_tif      == <<"t", "i", "f">>
S_npz      == <<"n", "p", "z">>
S_npy      == <<"n", "p", "y">>
\* 'data:image/' and ';base64,' of image_to_data_url's format string
S_data_image    == S_data \o S_image \o <<"/">>
S_base64_comma  == <<";">> \o S_base64 \o <<",">>
\* 'data:ndarray/npz;base64,' of ndarray_to_data_url
S_data_ndarray_npz == S_data \o S_ndarray \o <<"/">> \o S_npz \o S_base64_comma

----------------------------------------------------------------------------
(* base64 (RFC 4648 alphabet), as base64.b64encode / base64.b64decode *)

B64Alphabet ==
    << "A","B","C","D","E","F","G","H","I","J","K","L","M","N","O","P",
       "Q","R","S","T","U","V","W","X","Y","Z","a","b","c","d","e","f",
       "g","h","i","j","k","l","m","n","o","p","q","r","s","t","u","v",
       "w","x","y","z","0","1","2","3","4","5","6","7","8","9","+","/" >>

B64Chars == {B64Alphabet[i] : i \in 1..64}
B64Pad == "="

\* the character of a 6-bit value, and the 6-bit value of a character
B64Char(v) == B64Alphabet[v + 1]
B64Value(ch) == (CHOOSE i \in 1..64 : B64Alphabet[i] = ch) - 1

RECURSIVE B2A(_)
B2A(data) ==
    IF Len(data) = 0 THEN <<>>
    ELSE IF Len(data) = 1 THEN
        << B64Char(data[1] \div 4), B64Char((data[1] % 4) * 16), B64Pad, B64Pad >>
    ELSE IF Len(data) = 2 THEN
        << B64Char(data[1] \div 4),
           B64Char((data[1] % 4) * 16 + data[2] \div 16),
           B64Char((data[2] % 16) * 4), B64Pad >>
    ELSE
        << B64Char(data[1] \div 4),
           B64Char((data[1] % 4) * 16 + data[2] \div 16),
           B64Char((data[2] % 16) * 4 + data[3] \div 64),
           B64Char(data[3] % 64) >> \o B2A(Drop(data, 3))

\* base64encode without the '=' padding of the last group
base64encode_nopad(data) == SelectSeq(B2A(data), LAMBDA ch : ch # B64Pad)

\* base64.b64encode(data).decode('utf-8')
base64encode(data) == B2A(data)

\* binascii.a2b_base64 with strict_mode off: characters outside the alphabet
\* are skipped, a completed '=' padding ends the data, and a dangling group
\* raises binascii.Error
RECURSIVE A2B(_, _, _, _, _, _)
A2B(s, i, quad_pos, leftchar, pads, out) ==
    IF i > Len(s) THEN
        IF quad_pos = 1 THEN Raise("binascii.Error", "Invalid base64-encoded string", <<>>)
        ELSE IF quad_pos # 0 THEN Raise("binascii.Error", "Incorrect padding", <<>>)
        ELSE Ok(out)
    ELSE IF s[i] = B64Pad THEN
        IF quad_pos >= 2 /\ quad_pos + pads + 1 >= 4 THEN Ok(out)
        ELSE A2B(s, i + 1, quad_pos, leftchar,
                 IF quad_pos >= 2 THEN pads + 1 ELSE pads, out)
    ELSE IF s[i] \notin B64Chars THEN A2B(s, i + 1, quad_pos, leftchar, pads, out)
    ELSE LET v == B64Value(s[i]) IN
        CASE quad_pos = 0 -> A2B(s, i + 1, 1, v, 0, out)
          [] quad_pos = 1 ->
                A2B(s, i + 1, 2, v % 16, 0, Append(out, leftchar * 4 + v \div 16))
          [] quad_pos = 2 ->
                A2B(s, i + 1, 3, v % 4, 0, Append(out, leftchar * 16 + v \div 4))
          [] OTHER ->
                A2B(s, i + 1, 0, 0, 0, Append(out, leftchar * 64 + v))

\* base64.b64decode(data, validate=True): characters outside the alphabet
\* are refused
b64decode_strict(data) ==
    IF \E i \in 1..Len(data) : data[i] \notin B64Chars \cup {B64Pad}
    THEN Raise("binascii.Error", "Only base64 data is allowed", <<>>)
    ELSE A2B(data, 1, 0, 0, 0, <<>>)

\* base64.b64decode(data)
base64decode(data) == A2B(data, 1, 0, 0, 0, <<>>)

----------------------------------------------------------------------------
(* Data-URL parser and builder *)

\* image_to_data_url(image_bytes, fmt)
image_to_data_url(image_bytes, fmt) ==
    S_data_image \o fmt \o S_base64_comma \o base64encode(image_bytes)

\* parse_data_url(data_url) -> (datatype, subtype, encoding, data).  Each
\* tuple unpacking raises unless the split gave exactly two parts; the bare
\* except turns that into the ValueError.
parse_data_url(data_url) ==
    IF ~StartsWith(data_url, S_data)
    THEN Raise("ValueError", "Not a data URL", Prefix(data_url, 40))
    ELSE LET parts == Split(data_url, ",") IN
        IF Len(parts) # 2
        THEN Raise("ValueError", "Data URL not in correct format", Prefix(data_url, 40))
        ELSE LET header == Remove(parts[1], S_data)
                 hparts == RSplit1(header, ";")
             IN  IF Len(hparts) # 2
                 THEN Raise("ValueError", "Data URL not in correct format", Prefix(data_url, 40))
                 ELSE LET mparts == Split(hparts[1], "/") IN
                     IF Len(mparts) # 2
                     THEN Raise("ValueError", "Data URL not in correct format",
                                Prefix(data_url, 40))
                     ELSE Ok(<<mparts[1], mparts[2], hparts[2], parts[2]>>)

\* extract_data_and_type with the datatype test dropped
extract_data_and_type_anytype(data_url) ==
    LET p == parse_data_url(data_url) IN
    IF ~p.ok THEN p
    ELSE IF ~(p.val[3] = S_base64)
    THEN Raise("ValueError", "Invalid data", Prefix(data_url, 50))
    ELSE LET d == base64decode(p.val[4]) IN
         IF ~d.ok THEN d ELSE Ok(<<d.val, p.val[1], p.val[2]>>)

\* extract_data_and_type(data_url) -> (raw_data, datatype, subtype)
extract_data_and_type(data_url) ==
    LET p == parse_data_url(data_url) IN
    IF ~p.ok THEN p
    ELSE IF ~(p.val[3] = S_base64 /\ (p.val[1] = S_image \/ p.val[1] = S_ndarray))
    THEN Raise("ValueError", "Invalid data", Prefix(data_url, 50))
    ELSE LET d == base64decode(p.val[4]) IN
         IF ~d.ok THEN d ELSE Ok(<<d.val, p.val[1], p.val[2]>>)

----------------------------------------------------------------------------
(* ndarrays *)

\* element types of the model: 8-bit unsigned, 16-bit unsigned (little
\* endian, standing for every wider numeric type) and bool
DTypes == {"uint8", "uint16", "bool"}

ItemSize(dtype) == IF dtype = "uint16" THEN 2 ELSE 1

\* dtype.descr as it is written to the npy header: '|u1', '<u2', '|b1'
Descr(dtype) ==
    CASE dtype = "uint8"  -> <<124, 117, 49>>
      [] dtype = "uint16" -> <<60, 117, 50>>
      [] OTHER            -> <<124, 98, 49>>

RECURSIVE Product(_)
Product(shape) == IF Len(shape) = 0 THEN 1 ELSE Head(shape) * Product(Tail(shape))

NDArray(dtype, shape, data) == [dtype |-> dtype, shape |-> shape, data |-> data]

\* the elements as bytes, little endian, in C order (ndarray.tobytes())
RECURSIVE ToBytes(_, _)
ToBytes(data, itemsize) ==
    IF Len(data) = 0 THEN <<>>
    ELSE (IF itemsize = 2 THEN <<Head(data) % 256, Head(data) \div 256>>
          ELSE <<Head(data)>>) \o ToBytes(Tail(data), itemsize)

\* numpy.frombuffer
RECURSIVE FromBytes(_, _)
FromBytes(bytes, itemsize) ==
    IF Len(bytes) = 0 THEN <<>>
    ELSE IF itemsize = 2
         THEN <<bytes[1] + 256 * bytes[2]>> \o FromBytes(Drop(bytes, 2), 2)
         ELSE <<bytes[1]>> \o FromBytes(Tail(bytes), 1)

\* is_image with the dtype test dropped
is_image_anytype(ndarray) ==
    Len(ndarray.shape) = 2 \/ (Len(ndarray.shape) = 3 /\ ndarray.shape[3] = 3)

\* is_image(ndarray)
is_image(ndarray) ==
    LET shape == ndarray.shape
        dtype == ndarray.dtype
        is_image_type == dtype = "uint8"
        is_img_shape == Len(shape) = 2 \/ (Len(shape) = 3 /\ shape[3] = 3)
    IN  is_image_type /\ is_img_shape

----------------------------------------------------------------------------
(* zlib deflate / inflate, as run-length coding: pairs (count, byte) *)

RECURSIVE RunLength(_, _)
RunLength(bytes, b) ==
    IF Len(bytes) > 0 /\ Head(bytes) = b THEN 1 + RunLength(Tail(bytes), b) ELSE 0

RECURSIVE Deflate(_)
Deflate(bytes) ==
    IF Len(bytes) = 0 THEN <<>>
    ELSE LET n == RunLength(bytes, Head(bytes))
         IN  <<n, Head(bytes)>> \o Deflate(Drop(bytes, n))

RECURSIVE Repeat(_, _)
Repeat(b, n) == IF n = 0 THEN <<>> ELSE <<b>> \o Repeat(b, n - 1)

\* the inflated bytes; a stream that is no deflate output is an error
RECURSIVE Inflate(_)
Inflate(bytes) ==
    IF Len(bytes) = 0 THEN Ok(<<>>)
    ELSE IF Len(bytes) = 1 \/ bytes[1] = 0 THEN Raise("zlib.error", "invalid stream", <<>>)
    ELSE LET rest == Inflate(Drop(bytes, 2))
         IN  IF ~rest.ok THEN rest ELSE Ok(Repeat(bytes[2], bytes[1]) \o rest.val)

----------------------------------------------------------------------------
(* numpy.save / numpy.savez_compressed / numpy.load *)

\* '\x93NUMPY' and 'PK\x03\x04'
NPY_MAGIC == <<147, 78, 85, 77, 80, 89>>
ZIP_MAGIC == <<80, 75, 3, 4>>

\* member names 'arr_0' and 'allow_pickle'
N_arr_0 == <<97, 114, 114, 95, 48>>
N_allow_pickle == <<97, 108, 108, 111, 119, 95, 112, 105, 99, 107, 108, 101>>

\* numpy.save(buf, ndarray, allow_pickle=False): magic, then the header
\* (descr, rank, shape), then the elements
np_save(ndarray) ==
    NPY_MAGIC \o Descr(ndarray.dtype) \o <<Len(ndarray.shape)>> \o ndarray.shape
        \o ToBytes(ndarray.data, ItemSize(ndarray.dtype))

\* numpy.lib.format.read_array
read_array(bdata) ==
    LET body == Drop(bdata, Len(NPY_MAGIC))
        known == {d \in DTypes : Len(body) >= 4 /\ SubSeq(body, 1, 3) = Descr(d)}
    IN  IF known = {} THEN Raise("ValueError", "Cannot parse header", <<>>)
        ELSE LET dtype == CHOOSE d \in known : TRUE
                 rank == body[4]
             IN  IF Len(body) < 4 + rank THEN Raise("ValueError", "Cannot parse header", <<>>)
                 ELSE LET shape == SubSeq(body, 5, 4 + rank)
                          raw == Drop(body, 4 + rank)
                      IN  IF Len(raw) # Product(shape) * ItemSize(dtype)
                          THEN Raise("ValueError", "cannot reshape array", <<>>)
                          ELSE Ok(NDArray(dtype, shape, FromBytes(raw, ItemSize(dtype))))

\* a zip archive of named arrays: magic, member count, then per member the
\* name and the deflated npy stream, each with its length in front
RECURSIVE ZipMembers(_)
ZipMembers(members) ==
    IF Len(members) = 0 THEN <<>>
    ELSE LET m == Head(members)
             z == Deflate(np_save(m.array))
         IN  <<Len(m.name)>> \o m.name \o <<Len(z)>> \o z \o ZipMembers(Tail(members))

ZipArchive(members) == ZIP_MAGIC \o <<Len(members)>> \o ZipMembers(members)

\* numpy.savez_compressed(buf, ndarray, allow_pickle=False).  A numpy whose
\* savez_compressed has no allow_pickle parameter takes the keyword as one
\* more array to save, named 'allow_pickle'; keyword arrays are written first.
np_savez_compressed(ndarray) ==
    IF numpy_savez_kw
    THEN ZipArchive(<<[name |-> N_arr_0, array |-> ndarray]>>)
    ELSE ZipArchive(<<[name |-> N_allow_pickle, array |-> NDArray("bool", <<>>, <<0>>)],
                      [name |-> N_arr_0, array |-> ndarray]>>)

\* the directory of a zip archive: its members [name, data], or an error
RECURSIVE ReadMembers(_, _)
ReadMembers(bytes, n) ==
    IF n = 0 THEN (IF Len(bytes) = 0 THEN Ok(<<>>)
                   ELSE Raise("BadZipFile", "File is not a zip file", <<>>))
    ELSE IF Len(bytes) < 1 \/ Len(bytes) < 2 + bytes[1]
         \/ Len(bytes) < 2 + bytes[1] + bytes[2 + bytes[1]]
    THEN Raise("BadZipFile", "File is not a zip file", <<>>)
    ELSE LET nlen == bytes[1]
             zlen == bytes[2 + nlen]
             rest == ReadMembers(Drop(bytes, 2 + nlen + zlen), n - 1)
         IN  IF ~rest.ok THEN rest
             ELSE Ok(<<[name |-> SubSeq(bytes, 2, 1 + nlen),
                        data |-> SubSeq(bytes, 3 + nlen, 2 + nlen + zlen)]>> \o rest.val)

\* numpy.load(buf, allow_pickle=False): an ndarray for an npy stream, an
\* NpzFile for a zip archive; anything else would have to be a pickle
np_load(bdata) ==
    IF Len(bdata) = 0 THEN Raise("EOFError", "No data left in file", <<>>)
    ELSE IF StartsWith(bdata, ZIP_MAGIC) THEN
        IF Len(bdata) < Len(ZIP_MAGIC) + 1
        THEN Raise("BadZipFile", "File is not a zip file", <<>>)
        ELSE LET ms == ReadMembers(Drop(bdata, Len(ZIP_MAGIC) + 1), bdata[Len(ZIP_MAGIC) + 1])
             IN  IF ~ms.ok THEN ms
                 ELSE Ok([kind |-> "NpzFile", array |-> <<>>, members |-> ms.val])
    ELSE IF StartsWith(bdata, NPY_MAGIC) THEN
        LET a == read_array(bdata)
        IN  IF ~a.ok THEN a ELSE Ok([kind |-> "ndarray", array |-> a.val, members |-> <<>>])
    ELSE Raise("ValueError", "Cannot load file containing pickled data", <<>>)

\* NpzFile.__getitem__(name): the member inflated and read as an npy stream
NpzGet(members, name) ==
    LET m == CHOOSE x \in {members[i] : i \in 1..Len(members)} : x.name = name
        raw == Inflate(m.data)
    IN  IF ~raw.ok THEN raw
        ELSE IF ~StartsWith(raw.val, NPY_MAGIC) THEN Ok(raw.val)
        ELSE read_array(raw.val)

----------------------------------------------------------------------------
(* PIL: Image.fromarray, Image.save(format='PNG'), Image.open, numpy.asarray *)

\* the first bytes of a PNG stream: '\x89PNG'
PNG_MAGIC == <<137, 80, 78, 71>>

\* PilImage.fromarray(ndarray) for a uint8 array: mode 'L' for (h, w), mode
\* 'RGB' for (h, w, 3); size is (width, height)
PilImage_fromarray(ndarray) ==
    [mode |-> IF Len(ndarray.shape) = 2 THEN "L" ELSE "RGB",
     size |-> <<ndarray.shape[2], ndarray.shape[1]>>,
     pixels |-> ndarray.data]

\* pil_image.save(buf, format='PNG'): magic, then the header (width, height,
\* bands), then the deflated raster
PngSave(pil_image) ==
    PNG_MAGIC \o pil_image.size \o <<IF pil_image.mode = "L" THEN 1 ELSE 3>>
        \o Deflate(pil_image.pixels)

\* PilImage.open(buf) with the raster loaded
PilImage_open(bdata) ==
    IF ~StartsWith(bdata, PNG_MAGIC) \/ Len(bdata) < Len(PNG_MAGIC) + 3
       \/ bdata[Len(PNG_MAGIC) + 3] \notin {1, 3}
    THEN Raise("UnidentifiedImageError", "cannot identify image file", <<>>)
    ELSE LET w == bdata[Len(PNG_MAGIC) + 1]
             h == bdata[Len(PNG_MAGIC) + 2]
             bands == bdata[Len(PNG_MAGIC) + 3]
             raster == Inflate(Drop(bdata, Len(PNG_MAGIC) + 3))
         IN  IF ~raster.ok \/ Len(raster.val) # w * h * bands
             THEN Raise("OSError", "image file is truncated", <<>>)
             ELSE Ok([mode |-> IF bands = 1 THEN "L" ELSE "RGB",
                      size |-> <<w, h>>, pixels |-> raster.val])

\* numpy.asarray(pil_image, dtype): shape (h, w) or (h, w, 3), uint8 unless
\* a dtype is given ("None" stands for dtype=None)
np_asarray(pil_image, dtype) ==
    NDArray(IF dtype = "None" THEN "uint8" ELSE dtype,
            IF pil_image.mode = "L" THEN <<pil_image.size[2], pil_image.size[1]>>
            ELSE <<pil_image.size[2], pil_image.size[1], 3>>,
            pil_image.pixels)

\* np_asarray with width and height not swapped back
np_asarray_transposed(pil_image, dtype) ==
    NDArray(IF dtype = "None" THEN "uint8" ELSE dtype,
            IF pil_image.mode = "L" THEN <<pil_image.size[1], pil_image.size[2]>>
            ELSE <<pil_image.size[1], pil_image.size[2], 3>>,
            pil_image.pixels)

----------------------------------------------------------------------------
(* ndarray byte codec and image/array bridge *)

\* pil_to_data_url(pil_image, fmt='png'), as ndarray_to_data_url calls it:
\* with the default format
pil_to_data_url(pil_image) == image_to_data_url(PngSave(pil_image), S_png)

\* ndarray_to_bytes(ndarray, compress=True)
ndarray_to_bytes(ndarray, compress) ==
    IF compress THEN np_save(ndarray) ELSE np_savez_compressed(ndarray)

\* ndarray_from_bytes that takes the first member of any archive
ndarray_from_bytes_first(bdata) ==
    LET r == np_load(bdata) IN
    IF ~r.ok THEN r
    ELSE IF r.val.kind = "ndarray" THEN Ok(r.val.array)
    ELSE IF Len(r.val.members) = 0
    THEN Raise("IndexError", "list index out of range", <<>>)
    ELSE NpzGet(r.val.members, r.val.members[1].name)

\* ndarray_from_bytes(bdata)
ndarray_from_bytes(bdata) ==
    LET r == np_load(bdata) IN
    IF ~r.ok THEN r
    ELSE IF r.val.kind = "ndarray" THEN Ok(r.val.array)
    ELSE IF Len(r.val.members) # 1
    THEN Raise("AssertionError", "Expect one ndarray in npz file!", <<>>)
    ELSE NpzGet(r.val.members, r.val.members[1].name)

\* ndarray_to_data_url with the image test on the shape only
ndarray_to_data_url_anytype(ndarray) ==
    IF is_image_anytype(ndarray)
    THEN pil_to_data_url(PilImage_fromarray(ndarray))
    ELSE S_data_ndarray_npz \o base64encode(ndarray_to_bytes(ndarray, TRUE))

\* ndarray_to_data_url(ndarray)
ndarray_to_data_url(ndarray) ==
    IF is_image(ndarray)
    THEN pil_to_data_url(PilImage_fromarray(ndarray))
    ELSE LET bdata == ndarray_to_bytes(ndarray, TRUE)
             b64data == base64encode(bdata)
         IN  S_data_ndarray_npz \o b64data

\* ndarray_from_data_url with the decoded image transposed
ndarray_from_data_url_transposed(data_url, dtype) ==
    LET e == extract_data_and_type(data_url) IN
    IF ~e.ok THEN e
    ELSE IF e.val[2] = S_image THEN
        LET img == PilImage_open(e.val[1])
        IN  IF ~img.ok THEN img ELSE Ok(np_asarray_transposed(img.val, dtype))
    ELSE ndarray_from_bytes(e.val[1])

\* ndarray_from_data_url(data_url, dtype=None)
ndarray_from_data_url(data_url, dtype) ==
    LET e == extract_data_and_type(data_url) IN
    IF ~e.ok THEN e
    ELSE IF e.val[2] = S_image THEN
        LET img == PilImage_open(e.val[1])
        IN  IF ~img.ok THEN img ELSE Ok(np_asarray(img.val, dtype))
    ELSE IF e.val[2] = S_ndarray THEN ndarray_from_bytes(e.val[1])
    ELSE Raise("ValueError", "Unknown data type", Prefix(data_url, 30))

----------------------------------------------------------------------------
(* File and URL adapters *)

\* save_raw_image(image, path): the disk afterwards; 'with open' closes f
save_raw_image(image, path) ==
    [disk EXCEPT ![path] = [exists |-> TRUE, data |-> image]]

\* load_raw_image(path); open() raises for a missing file
load_raw_image(path) ==
    IF disk[path].exists THEN Ok(disk[path].data)
    ELSE Raise("FileNotFoundError", "No such file or directory", path)

\* PilImage.open(buf) reads the header only: it identifies the format and
\* leaves the raster in the buffer until the image is loaded
PilImage_open_lazy(bdata) ==
    LET img == PilImage_open(bdata)
    IN  IF ~img.ok /\ img.err.type = "UnidentifiedImageError" THEN img
        ELSE Ok([format |-> S_png, fp |-> bdata])

\* image_from_url(url); served is what urlopen(url) yields: the body of the
\* resource, or the URLError raised
image_from_url(url, served) ==
    IF ~served.ok THEN served ELSE PilImage_open_lazy(served.val)

\* url.endswith('.npy') or url.endswith('.npz')
EndsInArrayExtension(url) ==
    EndsWith(url, <<".">> \o S_npy) \/ EndsWith(url, <<".">> \o S_npz)

\* np.array(pil_image): loads the raster
np_array(pil_image) ==
    LET img == PilImage_open(pil_image.fp)
    IN  IF ~img.ok THEN img ELSE Ok(np_asarray(img.val, "None"))

\* the NpzFile np.load returned stays open when the assertion fails or the
\* member cannot be read: ret.close() comes after both
ndarray_from_bytes_unclosed(bdata) ==
    LET r == np_load(bdata) IN
    IF r.ok /\ r.val.kind = "NpzFile" /\ ~ndarray_from_bytes(bdata).ok
    THEN {"NpzFile"} ELSE {}

\* ndarray_from_url(url)
ndarray_from_url(url, served) ==
    IF EndsInArrayExtension(url)
    THEN IF ~served.ok THEN served ELSE ndarray_from_bytes(served.val)
    ELSE LET img == image_from_url(url, served)
         IN  IF ~img.ok THEN img ELSE np_array(img.val)

\* fd = urlopen(url) is never closed, by ndarray_from_url or by
\* image_from_url, and ndarray_from_bytes may leave its archive open
ndarray_from_url_unclosed(url, served) ==
    IF ~served.ok THEN {}
    ELSE IF EndsInArrayExtension(url)
    THEN {"urlopen"} \cup ndarray_from_bytes_unclosed(served.val)
    ELSE {"urlopen"}

----------------------------------------------------------------------------
(* Format detection *)

\* PREFIX2FMT
PREFIX2FMT ==
    [prefix \in {<<255, 216>>, <<71, 73>>, <<137, 80>>, <<66, 77>>, <<73, 73>>, <<77, 77>>}
        |-> CASE prefix = <<255, 216>> -> S_jpg
              [] prefix = <<71, 73>>   -> S_gif
              [] prefix = <<137, 80>>  -> S_png
              [] prefix = <<66, 77>>   -> S_bmp
              [] OTHER                 -> S_tif]

\* _extension looking at the first byte only
extension_first_byte(img, path) ==
    LET hit == {k \in DOMAIN PREFIX2FMT : Len(img) >= 1 /\ k[1] = img[1]}
    IN  IF hit = {}
        THEN Raise("ValueError", "Unknown image type", <<Prefix(img, 2), path>>)
        ELSE Ok(PREFIX2FMT[CHOOSE k \in hit : TRUE])

\* _extension(img) of imagefile_to_data_url(path)
extension(img, path) ==
    LET prefix == Prefix(img, 2)
    IN  IF prefix \in DOMAIN PREFIX2FMT THEN Ok(PREFIX2FMT[prefix])
        ELSE Raise("ValueError", "Unknown image type", <<prefix, path>>)

\* imagefile_to_data_url(path), img being the content load_raw_image(path) reads
imagefile_to_data_url(path, img) ==
    LET ext == extension(img, path)
    IN  IF ~ext.ok THEN ext ELSE Ok(image_to_data_url(img, ext.val))

----------------------------------------------------------------------------
(* Inputs *)

\* all sequences over S of length 0..n
SeqsUpTo(S, n) == UNION {[1..k -> S] : k \in 0..n}

\* bytes that occur in the inputs: the magic bytes of PREFIX2FMT, 0 and 255
ByteSample == {0, 66, 71, 73, 77, 80, 137, 216, 255}

\* file contents
RawBytes == SeqsUpTo(ByteSample, MaxFileLen)

\* raw byte payloads
Payloads == SeqsUpTo({0, 137, 255}, MaxFileLen)

Paths == {"a.img", "b.img"}

ImageFormats == {S_jpg, S_gif, S_png, S_bmp, S_tif}

\* shapes of rank 0..3 with at least one and at most MaxElems elements
Shapes == {sh \in SeqsUpTo(1..MaxElems, 3) : Product(sh) <= MaxElems}

ElementValues(dtype) ==
    CASE dtype = "uint8"  -> {0, 1, 255}
      [] dtype = "uint16" -> {1, 258}
      [] OTHER            -> {0, 1}

Arrays ==
    UNION {{NDArray(d, sh, data) : data \in [1..Product(sh) -> ElementValues(d)]} :
           d \in {"uint8", "uint16"}, sh \in Shapes}

SmallArrays == {a \in Arrays : Product(a.shape) = 1 /\ Len(a.shape) <= 2}

\* texts for base64decode: alphabet characters, the pad and a foreign character
B64Texts == SeqsUpTo({"Q", "/", "=", "!"}, MaxB64Len)

\* texts for parse_data_url: up to MaxTokens of these tokens in a row
Tokens == {S_data, <<"/">>, <<";">>, <<",">>, <<"a">>}
TokenTexts == {Concat(ts) : ts \in SeqsUpTo(Tokens, MaxTokens)}

\* texts of the shape data:<f1>/<f2>;<f3>,<f4>
FieldTexts ==
    {S_data \o f1 \o <<"/">> \o f2 \o <<";">> \o f3 \o <<",">> \o f4 :
        f1 \in {S_image, S_ndarray, S_text, <<>>},
        f2 \in {S_png, S_npz},
        f3 \in {S_base64, S_base32, <<>>},
        f4 \in SeqsUpTo({"Q", "=", "!"}, 4)}

\* URLs: scheme and host, a resource name with one of three extensions, and
\* nothing, a query or a fragment after it
Urls ==
    {base \o <<"d", ".">> \o ext \o q :
        base \in {<<"h", "t", "t", "p", ":", "/", "/", "h", "/">>,
                  <<"f", "i", "l", "e", ":", "/", "/", "/">>},
        ext \in {S_npy, S_npz, S_png},
        q \in {<<>>, <<"?", "v", "=", "1">>, <<"?", "f", "=", ".", "n", "p", "y">>,
               <<"#", ".", "n", "p", "z">>}}

\* what a URL serves: an array as npy stream, as archive of one or of two
\* members, as PNG image, a PNG cut short, other bytes, or no answer at all
WebBodies ==
    LET WebArrays == {a \in SmallArrays : a.dtype = "uint8" /\ a.shape = <<1, 1>>} IN
    {np_save(a) : a \in WebArrays}
    \cup {ZipArchive(<<[name |-> N_arr_0, array |-> a]>>) : a \in WebArrays}
    \cup {ZipArchive(<<[name |-> N_allow_pickle, array |-> a],
                       [name |-> N_arr_0, array |-> a]>>) : a \in WebArrays}
    \cup {PngSave(PilImage_fromarray(a)) : a \in WebArrays}
    \cup {Prefix(PngSave(PilImage_fromarray(a)), Len(PNG_MAGIC) + 3) : a \in WebArrays}
    \cup {<<>>, PNG_MAGIC}
Served == {Ok(b) : b \in WebBodies} \cup {Raise("URLError", "urlopen error", <<>>)}

\* byte streams for ndarray_from_bytes: npy streams, archives of 0..2 named
\* arrays, and streams that are neither
Members ==
    {<<>>}
    \cup {<<[name |-> n, array |-> a]>> : n \in {N_arr_0, N_allow_pickle}, a \in SmallArrays}
    \cup {<<[name |-> N_arr_0, array |-> a], [name |-> N_allow_pickle, array |-> b]>> :
            a \in SmallArrays, b \in SmallArrays}

ByteStreams ==
    {np_save(a) : a \in SmallArrays}
    \cup {ZipArchive(ms) : ms \in Members}
    \cup {<<>>, <<0>>, NPY_MAGIC, ZIP_MAGIC, PNG_MAGIC, ZIP_MAGIC \o <<1>>}
    \cup {Prefix(np_save(a), Len(np_save(a)) - 1) : a \in SmallArrays}

----------------------------------------------------------------------------
(* Calls.  A run makes one call on inputs of its choice and may then hand *)
(* the value returned to the inverse operation.                           *)

NoReturn == [ok |-> FALSE, val |-> <<>>, err |-> NoError]

\* no OrbitIO object is in use
NoOrbitIO ==
    /\ heap = <<>>
    /\ heap0 = <<>>
    /\ in_data = 0
    /\ response = 0
    /\ succeeded = FALSE
    /\ ncalls = 0

\* no filesys call is made
NoFilesys ==
    /\ fs = <<>>
    /\ proc = <<>>
    /\ done_req = <<>>

Init ==
    /\ numpy_savez_kw \in BOOLEAN
    /\ fn = ""
    /\ arg = <<>>
    /\ ret = NoReturn
    /\ prev = NoCall
    /\ open_handles = {}
    /\ disk = [path \in Paths |-> IF path = "a.img"
                                  THEN [exists |-> TRUE, data |-> PNG_MAGIC]
                                  ELSE [exists |-> FALSE, data |-> <<>>]]
    /\ NoOrbitIO
    /\ NoFilesys

\* a call that opens files, connections or archives: what it has not closed
\* itself stays open until the garbage collector gets to it, which may be
\* before or after the caller sees the outcome
CallIO(f, a, r, p, unclosed, d) ==
    /\ fn' = f
    /\ arg' = a
    /\ ret' = r
    /\ prev' = p
    /\ open_handles' \in SUBSET unclosed
    /\ disk' = d
    /\ UNCHANGED <<numpy_savez_kw, orbitio_vars, filesys_vars>>

Call(f, a, r, p) == CallIO(f, a, r, p, {}, disk)

This == [fn |-> fn, arg |-> arg]

Base64Decode ==
    /\ fn = ""
    /\ \E data \in B64Texts :
          Call("base64decode", data, base64decode(data), NoCall)

Base64Encode ==
    /\ fn = ""
    /\ \E data \in RawBytes :
          Call("base64encode", data, Ok(base64encode(data)), NoCall)

\* base64decode on the text base64encode returned
Base64DecodeEncoded ==
    /\ fn = "base64encode"
    /\ ret.ok
    /\ Call("base64decode", ret.val, base64decode(ret.val), This)

IsImage ==
    /\ fn = ""
    /\ \E d \in DTypes, sh \in Shapes :
          \E data \in [1..Product(sh) -> ElementValues(d)] :
              LET ndarray == NDArray(d, sh, data)
              IN  Call("is_image", ndarray, Ok(is_image(ndarray)), NoCall)

ParseDataUrl ==
    /\ fn = ""
    /\ \E data_url \in TokenTexts :
          Call("parse_data_url", data_url, parse_data_url(data_url), NoCall)

ExtractDataAndType ==
    /\ fn = ""
    /\ \E data_url \in FieldTexts :
          Call("extract_data_and_type", data_url, extract_data_and_type(data_url), NoCall)

\* extract_data_and_type on the data URL the previous call returned
ExtractBuilt ==
    /\ fn \in {"image_to_data_url", "ndarray_to_data_url", "imagefile_to_data_url"}
    /\ ret.ok
    /\ Call("extract_data_and_type", ret.val, extract_data_and_type(ret.val), This)

ImageToDataUrl ==
    /\ fn = ""
    /\ \E image_bytes \in Payloads, fmt \in ImageFormats :
          Call("image_to_data_url", [image_bytes |-> image_bytes, fmt |-> fmt],
               Ok(image_to_data_url(image_bytes, fmt)), NoCall)

ImagefileToDataUrl ==
    /\ fn = ""
    /\ \E path \in Paths, img \in RawBytes :
          Call("imagefile_to_data_url", [path |-> path, img |-> img],
               imagefile_to_data_url(path, img), NoCall)

NdarrayToBytes ==
    /\ fn = ""
    /\ \E ndarray \in Arrays, compress \in BOOLEAN :
          Call("ndarray_to_bytes", [ndarray |-> ndarray, compress |-> compress],
               Ok(ndarray_to_bytes(ndarray, compress)), NoCall)

NdarrayFromBytes ==
    /\ fn = ""
    /\ \E bdata \in ByteStreams :
          CallIO("ndarray_from_bytes", bdata, ndarray_from_bytes(bdata), NoCall,
                 ndarray_from_bytes_unclosed(bdata), disk)

\* ndarray_from_bytes on the bytes ndarray_to_bytes returned
NdarrayFromBytesBuilt ==
    /\ fn = "ndarray_to_bytes"
    /\ ret.ok
    /\ CallIO("ndarray_from_bytes", ret.val, ndarray_from_bytes(ret.val), This,
              ndarray_from_bytes_unclosed(ret.val), disk)

NdarrayToDataUrl ==
    /\ fn = ""
    /\ \E ndarray \in Arrays :
          Call("ndarray_to_data_url", ndarray, Ok(ndarray_to_data_url(ndarray)), NoCall)

\* ndarray_from_data_url on the data URL ndarray_to_data_url returned
NdarrayFromDataUrl ==
    /\ fn = "ndarray_to_data_url"
    /\ ret.ok
    /\ CallIO("ndarray_from_data_url", ret.val, ndarray_from_data_url(ret.val, "None"),
              This,
              LET e == extract_data_and_type(ret.val)
              IN  IF e.ok /\ e.val[2] = S_ndarray
                  THEN ndarray_from_bytes_unclosed(e.val[1]) ELSE {},
              disk)

SaveRawImage ==
    /\ fn = ""
    /\ \E image \in Payloads, path \in Paths :
          CallIO("save_raw_image", [image |-> image, path |-> path], Ok(<<>>), NoCall,
                 {}, save_raw_image(image, path))

\* load_raw_image, on the disk as it is or as save_raw_image left it
LoadRawImage ==
    /\ fn \in {"", "save_raw_image"}
    /\ \E path \in Paths :
          CallIO("load_raw_image", path, load_raw_image(path),
                 IF fn = "" THEN NoCall ELSE This, {}, disk)

ImageFromUrl ==
    /\ fn = ""
    /\ \E url \in Urls, served \in Served :
          CallIO("image_from_url", [url |-> url, served |-> served],
                 image_from_url(url, served), NoCall,
                 IF served.ok THEN {"urlopen"} ELSE {}, disk)

NdarrayFromUrl ==
    /\ fn = ""
    /\ \E url \in Urls, served \in Served :
          CallIO("ndarray_from_url", [url |-> url, served |-> served],
                 ndarray_from_url(url, served), NoCall,
                 ndarray_from_url_unclosed(url, served), disk)

Next ==
    \/ Base64Decode
    \/ Base64Encode
    \/ Base64DecodeEncoded
    \/ IsImage
    \/ ParseDataUrl
    \/ ExtractDataAndType
    \/ ExtractBuilt
    \/ ImageToDataUrl
    \/ ImagefileToDataUrl
    \/ NdarrayToBytes
    \/ NdarrayFromBytes
    \/ NdarrayFromBytesBuilt
    \/ NdarrayToDataUrl
    \/ NdarrayFromDataUrl
    \/ SaveRawImage
    \/ LoadRawImage
    \/ ImageFromUrl
    \/ NdarrayFromUrl

Spec == Init /\ [][Next]_vars

----------------------------------------------------------------------------
(* filesys.  A path is the sequence of its components; the file system     *)
(* says of every path whether it is absent, a file or a folder.  Every     *)
(* helper is a test of os.path.exists followed by one call that changes    *)
(* the file system; between the two, another process may run.              *)

\* TEMP_FOLDER = 'temp'
TEMP_FOLDER == <<"temp">>

FsPaths == {TEMP_FOLDER, TEMP_FOLDER \o <<"x">>, <<"y">>}

\* the folders a path lies in
Ancestors(path) == {Prefix(path, k) : k \in 1..(Len(path) - 1)}

\* file systems: what exists lies in folders that exist
FsStates ==
    {f \in [FsPaths -> {"none", "file", "dir"}] :
        \A q \in FsPaths : f[q] # "none" => \A a \in Ancestors(q) : f[a] = "dir"}

\* outcome of a call that changes the file system: the file system it
\* leaves and the exception it raises ("" when it returns)
FsResult(f, exc) == [fs |-> f, exc |-> exc]

\* os.path.exists(path)
os_path_exists(f, path) == f[path] # "none"

\* os.makedirs(path, mode): makes the missing folders down to path; raises
\* when path exists already or lies under a file
os_makedirs(f, path) ==
    IF f[path] # "none" THEN FsResult(f, "FileExistsError")
    ELSE IF \E a \in Ancestors(path) : f[a] = "file"
    THEN FsResult(f, "NotADirectoryError")
    ELSE FsResult([q \in FsPaths |->
                 IF q \in Ancestors(path) \cup {path} THEN "dir" ELSE f[q]], "")

\* os.remove(path)
os_remove(f, path) ==
    CASE f[path] = "file" -> FsResult([f EXCEPT ![path] = "none"], "")
      [] f[path] = "dir"  -> FsResult(f, "IsADirectoryError")
      [] OTHER            -> FsResult(f, "FileNotFoundError")

\* shutil.rmtree(path): the folder and all that is in it
shutil_rmtree(f, path) ==
    CASE f[path] = "dir"  ->
             FsResult([q \in FsPaths |->
                     IF path \in Ancestors(q) \cup {q} THEN "none" ELSE f[q]], "")
      [] f[path] = "file" -> FsResult(f, "NotADirectoryError")
      [] OTHER            -> FsResult(f, "FileNotFoundError")

\* create_folders that makes the folders without looking first
create_folders_unchecked(f, path, exists) == os_makedirs(f, path)

\* create_folders(path, mode), exists being what os.path.exists(path) said
create_folders(f, path, exists) ==
    IF ~exists THEN os_makedirs(f, path) ELSE FsResult(f, "")

\* delete_file(path)
delete_file(f, path, exists) ==
    IF exists THEN os_remove(f, path) ELSE FsResult(f, "")

\* delete_folders(path)
delete_folders(f, path, exists) ==
    IF exists THEN shutil_rmtree(f, path) ELSE FsResult(f, "")

\* create_temp_filepath(relative_path, ext): create_folders(TEMP_FOLDER),
\* then a fresh file name under it
create_temp_filepath(f, exists) == create_folders(f, TEMP_FOLDER, exists)

NoReq == [op |-> "", path |-> <<>>]

\* the second half of a call: what it does once os.path.exists has answered
FsAct(f, req, exists) ==
    CASE req.op = "create_folders"       -> create_folders(f, req.path, exists)
      [] req.op = "delete_file"          -> delete_file(f, req.path, exists)
      [] req.op = "delete_folders"       -> delete_folders(f, req.path, exists)
      [] req.op = "create_temp_filepath" -> create_temp_filepath(f, exists)

Procs == {1, 2}

\* calls made in one run, by all processes together
MaxFsCalls == 2

\* a process: where it is in its call (idle, checked: os.path.exists has
\* answered, done: returned or raised), the call, the answer of
\* os.path.exists, the exception raised, the file system when the call
\* began and when it ended, the call completed before it began, and the
\* number of calls the process has made
IdleProc ==
    [pc |-> "idle", req |-> NoReq, seen |-> FALSE, exc |-> "", fs0 |-> <<>>,
     fs1 |-> <<>>, prev_req |-> NoReq, n |-> 0]

\* no imageio or OrbitIO call is made
NoImageio ==
    /\ numpy_savez_kw = TRUE
    /\ fn = ""
    /\ arg = <<>>
    /\ ret = NoReturn
    /\ prev = NoCall
    /\ open_handles = {}
    /\ disk = <<>>

InitFilesys ==
    /\ fs \in FsStates
    /\ proc = [p \in Procs |-> IdleProc]
    /\ done_req = NoReq
    /\ NoImageio
    /\ NoOrbitIO

\* process p enters a call and evaluates os.path.exists(path)
Exists(p, req) ==
    /\ proc[p].pc \in {"idle", "done"}
    /\ proc[1].n + proc[2].n < MaxFsCalls
    /\ proc' = [proc EXCEPT ![p] =
                   [pc |-> "checked", req |-> req,
                    seen |-> os_path_exists(fs, req.path), exc |-> "",
                    fs0 |-> fs, fs1 |-> <<>>, prev_req |-> done_req,
                    n |-> proc[p].n + 1]]
    /\ UNCHANGED <<fs, done_req, fn, arg, ret, imageio_vars, orbitio_vars>>

\* process p acts on the answer it got and the call ends
Act(p, op) ==
    /\ proc[p].pc = "checked"
    /\ proc[p].req.op = op
    /\ LET r == FsAct(fs, proc[p].req, proc[p].seen)
       IN  /\ fs' = r.fs
           /\ proc' = [proc EXCEPT ![p].pc = "done", ![p].exc = r.exc, ![p].fs1 = r.fs]
    /\ done_req' = proc[p].req
    /\ UNCHANGED <<fn, arg, ret, imageio_vars, orbitio_vars>>

CreateFoldersExists(p) ==
    \E path \in FsPaths : Exists(p, [op |-> "create_folders", path |-> path])
CreateFoldersMakedirs(p) == Act(p, "create_folders")

DeleteFileExists(p) ==
    \E path \in FsPaths : Exists(p, [op |-> "delete_file", path |-> path])
DeleteFileRemove(p) == Act(p, "delete_file")

DeleteFoldersExists(p) ==
    \E path \in FsPaths : Exists(p, [op |-> "delete_folders", path |-> path])
DeleteFoldersRmtree(p) == Act(p, "delete_folders")

CreateTempFilepathExists(p) ==
    Exists(p, [op |-> "create_temp_filepath", path |-> TEMP_FOLDER])
CreateTempFilepathMakedirs(p) == Act(p, "create_temp_filepath")

\* two processes, their steps interleaved
NextFilesys ==
    \E p \in Procs :
        \/ CreateFoldersExists(p)
        \/ CreateFoldersMakedirs(p)
        \/ DeleteFileExists(p)
        \/ DeleteFileRemove(p)
        \/ DeleteFoldersExists(p)
        \/ DeleteFoldersRmtree(p)
        \/ CreateTempFilepathExists(p)
        \/ CreateTempFilepathMakedirs(p)

SpecFilesys == InitFilesys /\ [][NextFilesys]_vars

\* the calls one after the other: no call begins or goes on while another
\* process is between its test and its act
NextFilesysSeq ==
    \E p \in Procs :
        /\ \A q \in Procs \ {p} : proc[q].pc # "checked"
        /\ \/ CreateFoldersExists(p)
           \/ CreateFoldersMakedirs(p)
           \/ DeleteFileExists(p)
           \/ DeleteFileRemove(p)
           \/ DeleteFoldersExists(p)
           \/ DeleteFoldersRmtree(p)
           \/ CreateTempFilepathExists(p)
           \/ CreateTempFilepathMakedirs(p)

SpecFilesysSeq == InitFilesys /\ [][NextFilesysSeq]_vars

----------------------------------------------------------------------------
(* orbitio.  Python values are records [t, v]: an int, a str (a text), a   *)
(* list or tuple of values, None, a GeoJSON feature, or a reference to an  *)
(* object of the heap.  The heap holds the objects that are changed in     *)
(* place: the dicts, and the list of features.  A dict maps keys (texts)   *)
(* to values.                                                              *)

PyNone == [t |-> "None", v |-> <<>>]
PyInt(n) == [t |-> "int", v |-> n]
PyStr(s) == [t |-> "str", v |-> s]
PyList(xs) == [t |-> "list", v |-> xs]
Ref(id) == [t |-> "ref", v |-> id]

EmptyItems == [k \in {} |-> PyNone]
Dict(items) == [kind |-> "dict", items |-> items]
ListObj(items) == [kind |-> "list", items |-> items]

\* d[k] = v on the items of a dict
Put(items, k, v) == [x \in DOMAIN items \cup {k} |-> IF x = k THEN v ELSE items[x]]

\* a == b for two values
Same(a, b) == a.t = b.t /\ a.v = b.v

IsDict(h, data) == data.t = "ref" /\ h[data.v].kind = "dict"
IsListObj(h, data) == data.t = "ref" /\ h[data.v].kind = "list"

\* sub in s, for two str
IsSubstring(sub, s) ==
    \E i \in 0..(Len(s) - Len(sub)) : SubSeq(s, i + 1, i + Len(sub)) = sub

\* elem in data, elem a str
In(h, elem, data) ==
    CASE IsDict(h, data)    -> Ok(elem \in DOMAIN h[data.v].items)
      [] IsListObj(h, data) ->
             Ok(\E i \in 1..Len(h[data.v].items) : Same(h[data.v].items[i], PyStr(elem)))
      [] data.t = "str"     -> Ok(IsSubstring(elem, data.v))
      [] data.t \in {"list", "tuple"} ->
             Ok(\E i \in 1..Len(data.v) : Same(data.v[i], PyStr(elem)))
      [] OTHER -> Raise("TypeError", "argument of type is not iterable", data.t)

\* data[elem], elem a str
GetItem(h, data, elem) ==
    CASE IsDict(h, data) ->
             IF elem \in DOMAIN h[data.v].items THEN Ok(h[data.v].items[elem])
             ELSE Raise("KeyError", "", elem)
      [] IsListObj(h, data) \/ data.t \in {"list", "tuple"} ->
             Raise("TypeError", "list indices must be integers or slices", data.t)
      [] data.t = "str" -> Raise("TypeError", "string indices must be integers", data.t)
      [] OTHER -> Raise("TypeError", "object is not subscriptable", data.t)

\* data[index], index an int that is not negative
GetIndex(h, data, index) ==
    CASE IsDict(h, data) -> Raise("KeyError", "", index)
      [] IsListObj(h, data) ->
             IF index < Len(h[data.v].items) THEN Ok(h[data.v].items[index + 1])
             ELSE Raise("IndexError", "list index out of range", index)
      [] data.t \in {"list", "tuple"} ->
             IF index < Len(data.v) THEN Ok(data.v[index + 1])
             ELSE Raise("IndexError", "list index out of range", index)
      [] data.t = "str" ->
             IF index < Len(data.v) THEN Ok(PyStr(<<data.v[index + 1]>>))
             ELSE Raise("IndexError", "string index out of range", index)
      [] OTHER -> Raise("TypeError", "object is not subscriptable", data.t)

\* PATH_SEPARATOR = '/'
PATH_SEPARATOR == "/"

\* GEO_TYPES
GEO_TYPES ==
    {"Point", "LineString", "Polygon", "MultiPoint", "MultiLineString", "MultiPolygon"}

\* the loop of read: data is the value reached so far
RECURSIVE ReadLoop(_, _, _, _)
ReadLoop(h, data, elems, data_path) ==
    IF Len(elems) = 0 THEN Ok(data)
    ELSE LET elem == Head(elems)
             found == In(h, elem, data)
         IN  IF ~found.ok THEN found
             ELSE IF ~found.val
             THEN Raise("ValueError", "Incorrect data path", <<data_path, elem>>)
             ELSE LET item == GetItem(h, data, elem)
                  IN  IF ~item.ok THEN item
                      ELSE ReadLoop(h, item.val, Tail(elems), data_path)

\* OrbitIO.read(data_path, index=None)
OrbitIO_read(h, data_path, index) ==
    LET data == ReadLoop(h, Ref(in_data), Split(data_path, PATH_SEPARATOR), data_path)
    IN  IF ~data.ok \/ index.t = "None" THEN data
        ELSE GetIndex(h, data.val, index.v)

\* outcome of a method that changes objects: what it returns or raises, and
\* the heap it leaves
Done(r, h) == [ret |-> r, heap |-> h]

\* the loop of write and the assignment after it: res and prev (prev_res)
\* as in the code, elem the element of the previous round.  setdefault
\* stores a new dict under an element that is missing.
RECURSIVE WriteLoop(_, _, _, _, _, _)
WriteLoop(h, res, prev_res, elem, elems, data) ==
    IF Len(elems) = 0
    THEN Done(Ok(PyNone), [h EXCEPT ![prev_res.v].items = Put(@, elem, data)])
    ELSE IF ~IsDict(h, res)
    THEN Done(Raise("AttributeError", "object has no attribute 'setdefault'", res.t), h)
    ELSE IF Head(elems) \in DOMAIN h[res.v].items
    THEN WriteLoop(h, h[res.v].items[Head(elems)], res, Head(elems), Tail(elems), data)
    ELSE LET new == Len(h) + 1
             h1 == Append([h EXCEPT ![res.v].items = Put(@, Head(elems), Ref(new))],
                          Dict(EmptyItems))
         IN  WriteLoop(h1, Ref(new), res, Head(elems), Tail(elems), data)

\* OrbitIO.write(data_path, data)
OrbitIO_write(h, data_path, data) ==
    IF Len(data_path) = 0
    THEN Done(Raise("ValueError", "Data path is empty!", <<>>), h)
    ELSE WriteLoop(h, Ref(response), PyNone, <<>>,
                   Split(data_path, PATH_SEPARATOR), data)

S_image_annotations == <<"i", "m", "a", "g", "e", "_", "a", "n", "n", "o", "t", "a", "t", "i", "o", "n", "s">>
S_result == <<"r", "e", "s", "u", "l", "t">>
S_type == <<"t", "y", "p", "e">>
S_features == <<"f", "e", "a", "t", "u", "r", "e", "s">>
S_FeatureCollection == <<"F", "e", "a", "t", "u", "r", "e", "C", "o", "l", "l", "e", "c", "t", "i", "o", "n">>

\* the feature write_geo builds
Feature(kind, coordinates, props) ==
    [t |-> "Feature",
     v |-> [type |-> "Feature",
            geometry |-> [type |-> kind, coordinates |-> coordinates],
            properties |-> props]]

\* bool(value), for the values passed as coordinates
Truthy(value) ==
    CASE value.t \in {"list", "tuple", "str"} -> Len(value.v) > 0
      [] value.t = "int" -> value.v # 0
      [] value.t = "None" -> FALSE
      [] OTHER -> TRUE

\* self.__response[img_anno][img_key]['features'].append(feature)
AppendFeature(h, feature) ==
    LET anno == GetItem(h, Ref(response), S_image_annotations)
        key == IF anno.ok THEN GetItem(h, anno.val, S_result) ELSE anno
        features == IF key.ok THEN GetItem(h, key.val, S_features) ELSE key
    IN  IF ~features.ok THEN Done(features, h)
        ELSE IF ~IsListObj(h, features.val)
        THEN Done(Raise("AttributeError", "object has no attribute 'append'",
                        features.val.t), h)
        ELSE Done(Ok(PyNone), [h EXCEPT ![features.val.v].items = Append(@, feature)])

\* the new {'type': 'FeatureCollection', 'features': []} under
\* self.__response[img_anno][img_key]
NewCollection(h) ==
    LET n == Len(h)
        collection == [k \in {S_type, S_features} |->
                          IF k = S_type THEN PyStr(S_FeatureCollection) ELSE Ref(n + 3)]
    IN  [h EXCEPT ![response].items = Put(@, S_image_annotations, Ref(n + 1))]
          \o << Dict(Put(EmptyItems, S_result, Ref(n + 2))),
                Dict(collection),
                ListObj(<<>>) >>

\* write_geo that makes the FeatureCollection before it looks at its
\* arguments
OrbitIO_write_geo_eager(h, kind, coordinates, props) ==
    LET h1 == IF S_image_annotations \notin DOMAIN h[response].items
              THEN NewCollection(h) ELSE h
    IN  IF kind \notin GEO_TYPES
        THEN Done(Raise("ValueError", "Invalid geo type", kind), h1)
        ELSE IF ~Truthy(coordinates) \/ coordinates.t # "list"
        THEN Done(Raise("ValueError", "Invalid coordinates", coordinates), h1)
        ELSE AppendFeature(h1, Feature(kind, coordinates, props))

\* OrbitIO.write_geo(kind, coordinates, **props)
OrbitIO_write_geo(h, kind, coordinates, props) ==
    IF kind \notin GEO_TYPES
    THEN Done(Raise("ValueError", "Invalid geo type", kind), h)
    ELSE IF ~Truthy(coordinates) \/ coordinates.t # "list"
    THEN Done(Raise("ValueError", "Invalid coordinates", coordinates), h)
    ELSE AppendFeature(IF S_image_annotations \notin DOMAIN h[response].items
                       THEN NewCollection(h) ELSE h,
                       Feature(kind, coordinates, props))

\* response that hands out the dictionary whether or not it is empty
OrbitIO_response_unchecked(h) == Ok(Ref(response))

\* OrbitIO.response()
OrbitIO_response(h) ==
    IF DOMAIN h[response].items = {}
    THEN Raise("ValueError", "No response available! Call write.", <<>>)
    ELSE Ok(Ref(response))

\* calls made on one OrbitIO object
MaxOrbitCalls == 2

\* the state after OrbitIO(in_data) has returned.
\* the objects at the start: in_data = {'d': {'n': 42, 's': 'ns',
\* 'l': ['n', 's']}} (objects 1 and 2), the empty response (object 3), and
\* an empty dict that the caller holds and may pass to write (object 4)
InitOrbitIO ==
    /\ heap =
          << Dict(Put(EmptyItems, <<"d">>, Ref(2))),
             Dict([k \in {<<"n">>, <<"s">>, <<"l">>} |->
                     CASE k = <<"n">> -> PyInt(42)
                       [] k = <<"s">> -> PyStr(<<"n", "s">>)
                       [] OTHER       -> PyList(<<PyStr(<<"n">>), PyStr(<<"s">>)>>)]),
             Dict(EmptyItems),
             Dict(EmptyItems) >>
    /\ heap0 = heap
    /\ in_data = 1
    /\ response = 3
    /\ succeeded = FALSE
    /\ ncalls = 0
    /\ NoImageio
    /\ NoFilesys

OrbitCall(f, a, r, h) ==
    /\ ncalls < MaxOrbitCalls
    /\ fn' = f
    /\ arg' = a
    /\ ret' = r
    /\ heap' = h
    /\ heap0' = heap
    /\ succeeded' = (succeeded \/ (f \in {"write", "write_geo"} /\ r.ok))
    /\ ncalls' = ncalls + 1
    /\ UNCHANGED <<in_data, response, imageio_vars, filesys_vars>>

\* read(data_path, index), the index absent or a position
Read ==
    \E data_path \in
            { <<>>, <<"d">>, <<"x">>, <<"/">>, <<"d", "/">>,
              <<"d", "/", "n">>, <<"d", "/", "s">>, <<"d", "/", "l">>,
              <<"d", "/", "x">>, <<"d", "/", "n", "/", "x">>,
              <<"d", "/", "s", "/", "x">>, <<"d", "/", "s", "/", "n">>,
              <<"d", "/", "s", "/">>, <<"d", "/", "l", "/", "n">>,
              <<"d", "/", "l", "/", "x">> },
       i \in 1..3 :
        LET index == <<PyNone, PyInt(0), PyInt(2)>>[i]
        IN  OrbitCall("read", [data_path |-> data_path, index |-> index],
                      OrbitIO_read(heap, data_path, index), heap)

\* write(data_path, data), the data a number, the dict read('d') returns
\* or the caller's dict
Write ==
    \E data_path \in
            { <<>>, <<"a">>, <<"a", "/", "b">>, <<"a", "/", "c">>, <<"/">>,
              S_image_annotations,
              S_image_annotations \o <<"/">> \o S_result \o <<"/">> \o S_features },
       data \in {PyInt(42), PyInt(7), Ref(2), Ref(4)} :
        LET w == OrbitIO_write(heap, data_path, data)
        IN  OrbitCall("write", [data_path |-> data_path, data |-> data], w.ret, w.heap)

\* write_geo(kind, coordinates, **props)
WriteGeo ==
    \E kind \in {"Point", "Polygon", "Circle"},
       coordinates \in {PyList(<<PyInt(1), PyInt(2)>>), PyList(<<>>),
                        [t |-> "tuple", v |-> <<PyInt(1), PyInt(2)>>]},
       props \in {<<>>, <<<<"label", "My point">>>>} :
        LET w == OrbitIO_write_geo(heap, kind, coordinates, props)
        IN  OrbitCall("write_geo",
                      [kind |-> kind, coordinates |-> coordinates, props |-> props],
                      w.ret, w.heap)

Response == OrbitCall("response", <<>>, OrbitIO_response(heap), heap)

NextOrbitIO ==
    \/ Read
    \/ Write
    \/ WriteGeo
    \/ Response

SpecOrbitIO == InitOrbitIO /\ [][NextOrbitIO]_vars

----------------------------------------------------------------------------
(* Array byte codec: C1, C2, C9 *)

\* C1: the array byte round trip: ndarray_from_bytes(ndarray_to_bytes(a, c))
\* succeeds and returns a (same shape, element type and values), for both
\* values of the compress flag c.
C1_ArrayByteRoundTrip ==
    (fn = "ndarray_from_bytes" /\ prev.fn = "ndarray_to_bytes")
        => (ret.ok /\ ret.val = prev.arg.ndarray)

\* C2: ndarray_to_bytes(a, compress) returns a zip archive (npz) when
\* compress is True and a plain npy stream when compress is False.
C2_FormatFollowsFlag ==
    fn = "ndarray_to_bytes"
        => IF arg.compress THEN StartsWith(ret.val, ZIP_MAGIC)
           ELSE StartsWith(ret.val, NPY_MAGIC)

\* stream holds exactly the array a: plain, or an archive of a alone
C9_HoldsOnly(stream, a) ==
    \/ stream = np_save(a)
    \/ \E n \in {N_arr_0, N_allow_pickle} :
          stream = ZipArchive(<<[name |-> n, array |-> a]>>)

\* the plain streams and the archives among the inputs, with what they hold
C9_PlainStreams == {[stream |-> np_save(a), array |-> a] : a \in SmallArrays}
C9_Archives == {[stream |-> ZipArchive(ms), members |-> ms] : ms \in Members}

\* C9: ndarray_from_bytes reads a plain stream and an archive of one array
\* alike, without a flag; it fails for every archive that does not hold
\* exactly one member, and returns an array only for a stream of exactly one
\* array.
C9_OneArrayPerStream ==
    fn = "ndarray_from_bytes" =>
        /\ \A s \in C9_PlainStreams : arg = s.stream => ret = Ok(s.array)
        /\ \A s \in C9_Archives : arg = s.stream =>
              IF Len(s.members) = 1 THEN ret = Ok(s.members[1].array) ELSE ~ret.ok
        /\ ret.ok => C9_HoldsOnly(arg, ret.val)

C9_Witness ==
    /\ fn = "ndarray_from_bytes"
    /\ \E s \in C9_Archives : Len(s.members) = 2 /\ arg = s.stream
    /\ ~ret.ok
    /\ ret.err.type = "AssertionError"

----------------------------------------------------------------------------
(* Data-URL parser: C3, C4, C10 *)

Count(s, ch) == Cardinality({i \in 1..Len(s) : s[i] = ch})

\* the grammar "data:" type "/" subtype ";" encoding "," data: the prefix,
\* one comma, and before it one slash followed by one semicolon
C3_Conforms(text) ==
    /\ StartsWith(text, S_data)
    /\ Count(text, ",") = 1
    /\ LET header == Split(text, ",")[1]
       IN  /\ Count(header, ";") = 1
           /\ Count(header, "/") = 1
           /\ \E i, j \in 1..Len(header) : i < j /\ header[i] = "/" /\ header[j] = ";"

\* C3: parse_data_url raises ValueError for every text that does not start
\* with 'data:', or has not exactly one comma, or whose header has not
\* exactly one slash and one semicolon in the order type/subtype;encoding.
C3_RejectsMalformed ==
    (fn = "parse_data_url" /\ ~C3_Conforms(arg))
        => (~ret.ok /\ ret.err.type = "ValueError")

\* C10: whenever parse_data_url(text) succeeds, its four components put back
\* together are the text: nothing of the input is dropped or altered.
C10_ComponentsAreTheInput ==
    (fn = "parse_data_url" /\ ret.ok)
        => arg = S_data \o ret.val[1] \o <<"/">> \o ret.val[2] \o <<";">>
                        \o ret.val[3] \o <<",">> \o ret.val[4]

\* C4: extract_data_and_type parses first (a parse failure is what it
\* raises), then raises 'Invalid data' unless the encoding is base64 and the
\* datatype is image or ndarray, and returns a value only then; for a data
\* URL built by image_to_data_url or ndarray_to_data_url it returns the
\* payload bytes and the two tags that were built in.
C4_ExtractTypedPayload ==
    fn = "extract_data_and_type" =>
        LET p == parse_data_url(arg)
            supported == p.val[3] = S_base64 /\ p.val[1] \in {S_image, S_ndarray}
        IN  /\ ~p.ok => ret = p
            /\ (p.ok /\ ~supported) =>
                  (~ret.ok /\ ret.err.type = "ValueError" /\ ret.err.msg = "Invalid data")
            /\ ret.ok =>
                  /\ p.ok /\ supported
                  /\ ret.val[2] = p.val[1] /\ ret.val[3] = p.val[2]
                  /\ base64decode(p.val[4]) = Ok(ret.val[1])
            /\ prev.fn = "image_to_data_url" =>
                  ret = Ok(<<prev.arg.image_bytes, S_image, prev.arg.fmt>>)
            /\ prev.fn = "imagefile_to_data_url" =>
                  (ret.ok /\ ret.val[1] = prev.arg.img /\ ret.val[2] = S_image)
            /\ prev.fn = "ndarray_to_data_url" =>
                  IF is_image(prev.arg)
                  THEN ret = Ok(<<PngSave(PilImage_fromarray(prev.arg)), S_image, S_png>>)
                  ELSE ret = Ok(<<np_save(prev.arg), S_ndarray, S_npz>>)

C4_Witness ==
    /\ fn = "extract_data_and_type"
    /\ prev.fn = "image_to_data_url"
    /\ Len(prev.arg.image_bytes) = 2
    /\ ret.ok

----------------------------------------------------------------------------
(* base64: C5 *)

\* text is canonical base64: alphabet characters in groups of four, the last
\* group possibly ending in one or two pads
C5_ValidBase64(text) ==
    /\ Len(text) % 4 = 0
    /\ \A i \in 1..Len(text) :
          \/ text[i] \in B64Chars
          \/ text[i] = B64Pad /\ i >= Len(text) - 1
                /\ \A j \in i..Len(text) : text[j] = B64Pad

C5_DataChars(text) == Cardinality({i \in 1..Len(text) : text[i] \in B64Chars})

\* some '=' of text completes a group: it follows 4k+3 alphabet characters,
\* or it follows 4k+2 of them and another '=' with no alphabet character
\* in between
C5_PaddingCompletes(text) ==
    \E i \in 1..Len(text) :
        /\ text[i] = B64Pad
        /\ LET q == C5_DataChars(SubSeq(text, 1, i - 1)) % 4
           IN  \/ q = 3
               \/ /\ q = 2
                  /\ \E j \in 1..(i - 1) :
                        text[j] = B64Pad /\ C5_DataChars(SubSeq(text, j, i)) = 0

----------------------------------------------------------------------------
(* Image/array bridge: C6, C7 *)

S_data_image_png == S_data_image \o S_png \o S_base64_comma

\* C6: ndarray_to_data_url(a) is 'data:image/png;base64,' followed by the
\* base64 of a PNG stream if is_image(a), and otherwise
\* 'data:ndarray/npz;base64,' followed by the base64 of
\* ndarray_to_bytes(a, compress=True).
C6_RepresentationByIsImage ==
    fn = "ndarray_to_data_url" =>
        /\ ret.ok
        /\ IF is_image(arg)
           THEN /\ StartsWith(ret.val, S_data_image_png)
                /\ LET payload == base64decode(Drop(ret.val, Len(S_data_image_png)))
                   IN  /\ payload.ok
                       /\ StartsWith(payload.val, PNG_MAGIC)
                       /\ ret.val = S_data_image_png \o base64encode(payload.val)
           ELSE ret.val = S_data_ndarray_npz \o base64encode(ndarray_to_bytes(arg, TRUE))

C6_Witness ==
    /\ fn = "ndarray_to_data_url"
    /\ arg.dtype = "uint16"
    /\ Len(arg.shape) = 2
    /\ StartsWith(ret.val, S_data_ndarray_npz)

\* C7: the bridge round trip: ndarray_from_data_url(ndarray_to_data_url(a))
\* succeeds and returns an array of the shape and the values of a, for
\* pixel arrays and for generic arrays.
C7_BridgeRoundTrip ==
    (fn = "ndarray_from_data_url" /\ prev.fn = "ndarray_to_data_url")
        => (ret.ok /\ ret.val.shape = prev.arg.shape /\ ret.val.data = prev.arg.data)

C7_Witness ==
    /\ fn = "ndarray_from_data_url"
    /\ prev.fn = "ndarray_to_data_url"
    /\ is_image(prev.arg)
    /\ prev.arg.shape = <<1, 2>>
    /\ ret.ok

----------------------------------------------------------------------------
(* Format detection: C8 *)

\* the table of section 4.2, on the first two bytes
C8_Tag(img) ==
    IF Len(img) < 2 THEN <<>>
    ELSE CASE img[1] = 255 /\ img[2] = 216 -> S_jpg
           [] img[1] = 71  /\ img[2] = 73  -> S_gif
           [] img[1] = 137 /\ img[2] = 80  -> S_png
           [] img[1] = 66  /\ img[2] = 77  -> S_bmp
           [] img[1] = 73  /\ img[2] = 73  -> S_tif
           [] img[1] = 77  /\ img[2] = 77  -> S_tif
           [] OTHER -> <<>>

\* C8: imagefile_to_data_url tags the data URL by the first two bytes of the
\* file alone, as the table says, and raises ValueError 'Unknown image type'
\* with the byte pair and the path for every other pair and for every file
\* of fewer than two bytes.
C8_FormatByFirstTwoBytes ==
    fn = "imagefile_to_data_url" =>
        IF C8_Tag(arg.img) # <<>>
        THEN ret = Ok(S_data_image \o C8_Tag(arg.img) \o S_base64_comma
                        \o base64encode(arg.img))
        ELSE /\ ~ret.ok
             /\ ret.err.type = "ValueError"
             /\ ret.err.msg = "Unknown image type"
             /\ ret.err.detail = <<Prefix(arg.img, 2), arg.path>>

C8_Witness ==
    /\ fn = "imagefile_to_data_url"
    /\ arg.img = <<77>>
    /\ ~ret.ok
    /\ ret.err.detail = <<<<77>>, arg.path>>

----------------------------------------------------------------------------
(* Image predicate and base64 codec: C11, C12 *)

\* C11: is_image(a) never fails and answers True exactly for the arrays of
\* element type uint8 whose rank is 2, or is 3 with a last dimension of
\* exactly 3; every other rank, last dimension or element type gives False.
C11_IsImageExactly ==
    fn = "is_image" =>
        /\ ret.ok
        /\ ret.val \in BOOLEAN
        /\ ret.val <=> /\ arg.dtype = "uint8"
                       /\ Len(arg.shape) \in {2, 3}
                       /\ Len(arg.shape) = 3 => arg.shape[3] = 3

C11_Witness ==
    /\ fn = "is_image"
    /\ arg.dtype = "uint8"
    /\ arg.shape = <<1, 1, 3>>
    /\ ret = Ok(TRUE)

\* C12: base64encode returns a text for every byte sequence, and
\* base64decode of that text is the byte sequence again.
C12_Base64RoundTrip ==
    /\ fn = "base64encode" => ret.ok
    /\ fn = "base64decode" /\ prev.fn = "base64encode" => ret = Ok(prev.arg)

C12_Witness ==
    /\ fn = "base64decode"
    /\ prev.fn = "base64encode"
    /\ Len(prev.arg) = 2
    /\ ret = Ok(prev.arg)

----------------------------------------------------------------------------
(* File and URL adapters: C13, C14 *)

\* the path of a URL: the text before the query and the fragment
C13_UrlPath(url) == Split(Split(url, "?")[1], "#")[1]

\* C13: ndarray_from_url dispatches on the URL path: when the path ends in
\* .npy or .npz the fetched bytes are decoded by ndarray_from_bytes, and for
\* every other URL they are decoded as an image.
C13_DispatchOnUrlPath ==
    fn = "ndarray_from_url" /\ arg.served.ok =>
        IF \/ EndsWith(C13_UrlPath(arg.url), <<".", "n", "p", "y">>)
           \/ EndsWith(C13_UrlPath(arg.url), <<".", "n", "p", "z">>)
        THEN ret = ndarray_from_bytes(arg.served.val)
        ELSE LET img == PilImage_open(arg.served.val)
             IN  ret = IF img.ok THEN Ok(np_asarray(img.val, "None")) ELSE img

\* C14: when load_raw_image, save_raw_image, image_from_url, ndarray_from_url
\* or ndarray_from_bytes has returned or raised, nothing the call opened (file
\* handle, URL connection, archive) is still open.
C14_NothingLeftOpen ==
    fn \in {"load_raw_image", "save_raw_image", "image_from_url",
            "ndarray_from_url", "ndarray_from_bytes"} => open_handles = {}

----------------------------------------------------------------------------
(* filesys: C15, C16 *)

\* the two calls are of the kinds and on the target the claim speaks of: both
\* create the same path, absent when either began and not under a file, or
\* both delete the same file, or both delete the same folder, there when
\* either began
C15_SameTarget(a, b) ==
    /\ a.req.path = b.req.path
    /\ \/ /\ {a.req.op, b.req.op} \subseteq {"create_folders", "create_temp_filepath"}
          /\ a.fs0[a.req.path] = "none"
          /\ b.fs0[a.req.path] = "none"
          /\ \A q \in Ancestors(a.req.path) : a.fs0[q] # "file" /\ b.fs0[q] # "file"
       \/ /\ a.req.op = "delete_file"
          /\ b.req.op = "delete_file"
          /\ a.fs0[a.req.path] = "file"
          /\ b.fs0[a.req.path] = "file"
       \/ /\ a.req.op = "delete_folders"
          /\ b.req.op = "delete_folders"
          /\ a.fs0[a.req.path] = "dir"
          /\ b.fs0[a.req.path] = "dir"

\* C15: when two processes each make one call, both creating the same
\* not-yet-existing path or both deleting the same existing file or folder,
\* then however their steps interleave neither call raises.
C15_NeitherRaises ==
    \A p, q \in Procs :
        /\ p # q
        /\ proc[p].pc = "done" /\ proc[q].pc = "done"
        /\ proc[p].n = 1 /\ proc[q].n = 1
        /\ C15_SameTarget(proc[p], proc[q])
        => proc[p].exc = "" /\ proc[q].exc = ""

\* C16: one call after the other, create_folders does not raise and leaves
\* the path existing whether or not it existed before, delete_file does not
\* raise and leaves the path absent whether or not the file existed before,
\* and the second of two such calls in a row leaves the file system as the
\* first left it.  (A path under a file cannot be created, and a path that
\* is a folder is no file.)
C16_Idempotent ==
    \A p \in Procs :
        LET c == proc[p] IN
        c.pc = "done" =>
            /\ c.req.op = "create_folders"
                 /\ (\A q \in Ancestors(c.req.path) : c.fs0[q] # "file")
               => /\ c.exc = ""
                  /\ c.fs1[c.req.path] # "none"
                  /\ c.prev_req = c.req => c.fs1 = c.fs0
            /\ c.req.op = "delete_file" /\ c.fs0[c.req.path] # "dir"
               => /\ c.exc = ""
                  /\ c.fs1[c.req.path] = "none"
                  /\ c.prev_req = c.req => c.fs1 = c.fs0

\* create_folders twice in a row on a path that was absent at first
C16_Witness ==
    \E p, q \in Procs :
        /\ proc[p].pc = "done"
        /\ proc[p].req.op = "create_folders"
        /\ proc[p].prev_req = proc[p].req
        /\ proc[q].n >= 1
        /\ proc[q].req = proc[p].req
        /\ proc[q].fs0[proc[q].req.path] = "none"
        /\ proc[p].exc = ""
        /\ proc[p].fs1 = proc[p].fs0

----------------------------------------------------------------------------
(* orbitio: C17, C18, C19, C20 *)

\* the value reached from value by following elems through nested dicts
RECURSIVE Follow(_, _, _)
Follow(h, value, elems) ==
    IF Len(elems) = 0 THEN [found |-> TRUE, val |-> value]
    ELSE IF IsDict(h, value) /\ Head(elems) \in DOMAIN h[value.v].items
    THEN Follow(h, h[value.v].items[Head(elems)], Tail(elems))
    ELSE [found |-> FALSE, val |-> PyNone]

\* two heaps hold the same objects with the same content
SameHeap(h1, h2) ==
    /\ Len(h1) = Len(h2)
    /\ \A id \in 1..Len(h1) :
          /\ h1[id].kind = h2[id].kind
          /\ DOMAIN h1[id].items = DOMAIN h2[id].items
          /\ \A k \in DOMAIN h1[id].items : Same(h1[id].items[k], h2[id].items[k])

\* C17: write(p, d) with a non-empty path p stores d at p: right after the
\* call, following the elements of p through response() reaches d, whatever
\* was written before.
C17_WriteStores ==
    fn = "write" /\ Len(arg.data_path) > 0 =>
        /\ ret.ok
        /\ LET at == Follow(heap, Ref(response), Split(arg.data_path, PATH_SEPARATOR))
           IN  at.found /\ Same(at.val, arg.data)

\* C18: response() raises ValueError 'No response available' exactly when no
\* write or write_geo call has succeeded yet; after one has, it returns the
\* accumulated dictionary; and it changes nothing.
C18_ResponseOnceWritten ==
    fn = "response" =>
        /\ SameHeap(heap, heap0)
        /\ IF succeeded
           THEN ret.ok /\ Same(ret.val, Ref(response))
           ELSE /\ ~ret.ok
                /\ ret.err.type = "ValueError"
                /\ ret.err.msg = "No response available! Call write."

\* response() after a write_geo call that succeeded
C18_Witness ==
    /\ fn = "response"
    /\ succeeded
    /\ ret.ok
    /\ S_image_annotations \in DOMAIN heap[response].items

\* C19: read(path) returns the value reached by following the elements of
\* path through the nested dicts of the input data, raises ValueError
\* 'Incorrect data path' when an element is not a key of the dict reached so
\* far, whatever kind of value was reached so far, and changes nothing.
C19_ReadFollowsOrRejects ==
    fn = "read" /\ arg.index.t = "None" =>
        /\ SameHeap(heap, heap0)
        /\ LET at == Follow(heap0, Ref(in_data), Split(arg.data_path, PATH_SEPARATOR))
           IN  IF at.found
               THEN ret.ok /\ Same(ret.val, at.val)
               ELSE /\ ~ret.ok
                    /\ ret.err.type = "ValueError"
                    /\ ret.err.msg = "Incorrect data path"

\* the features of response()['image_annotations']['result'], none if there
\* is no such list
C20_Features(h) ==
    LET at == Follow(h, Ref(response), <<S_image_annotations, S_result, S_features>>)
    IN  IF at.found /\ IsListObj(h, at.val) THEN h[at.val.v].items ELSE <<>>

\* C20: write_geo(kind, coordinates, **props) with kind one of the six
\* GeoJSON types and coordinates a non-empty list succeeds whatever was
\* written before, and appends exactly one Feature of that kind, coordinates
\* and properties to the features of response()['image_annotations']
\* ['result'], a FeatureCollection whose earlier features stay as they were.
C20_WriteGeoAppends ==
    fn = "write_geo" /\ arg.kind \in GEO_TYPES
        /\ arg.coordinates.t = "list" /\ Len(arg.coordinates.v) > 0 =>
        /\ ret.ok
        /\ C20_Features(heap) =
               Append(C20_Features(heap0),
                      Feature(arg.kind, arg.coordinates, arg.props))
        /\ LET type == Follow(heap, Ref(response),
                              <<S_image_annotations, S_result, S_type>>)
           IN  type.found /\ Same(type.val, PyStr(S_FeatureCollection))

----------------------------------------------------------------------------
(* orbitio: C21, C22 *)

\* the objects reached from the objects ids in at most n steps
RECURSIVE C21_Reach(_, _, _)
C21_Reach(h, ids, n) ==
    IF n = 0 THEN ids
    ELSE C21_Reach(h,
                   ids \cup {j \in 1..Len(h) :
                               \E i \in ids :
                                   /\ h[i].kind = "dict"
                                   /\ \E k \in DOMAIN h[i].items :
                                         /\ h[i].items[k].t = "ref"
                                         /\ h[i].items[k].v = j},
                   n - 1)

\* the objects ids hold in h2 what they held in h1
C21_Unchanged(h1, h2, ids) ==
    \A id \in ids :
        /\ id <= Len(h2)
        /\ h1[id].kind = h2[id].kind
        /\ DOMAIN h1[id].items = DOMAIN h2[id].items
        /\ \A k \in DOMAIN h1[id].items : Same(h1[id].items[k], h2[id].items[k])

\* neither sequence begins with the other
C21_Apart(p, q) ==
    \E k \in 1..Len(p) : k <= Len(q) /\ p[k] # q[k]

\* the paths q looked at: up to three elements
C21_Paths ==
    SeqsUpTo({<<>>, <<"a">>, <<"b">>, <<"c">>, <<"n">>, <<"s">>, <<"l">>,
              S_image_annotations, S_result, S_features, S_type}, 3)

\* write(p, d) keeps every other path of the response: what was reached at
\* q before is reached at q afterwards, with the content it had
C21_SiblingsKept ==
    fn = "write" /\ ret.ok =>
        \A q \in C21_Paths :
            LET before == Follow(heap0, Ref(response), q)
                after  == Follow(heap, Ref(response), q)
            IN  /\ Len(q) > 0
                /\ C21_Apart(Split(arg.data_path, PATH_SEPARATOR), q)
                /\ before.found
                => /\ after.found
                   /\ Same(after.val, before.val)
                   /\ before.val.t = "ref" =>
                          C21_Unchanged(heap0, heap,
                                        C21_Reach(heap0, {before.val.v}, Len(heap0)))

\* write leaves the input data as it was
C21_InputKept ==
    fn = "write" =>
        C21_Unchanged(heap0, heap, C21_Reach(heap0, {in_data}, Len(heap0)))

\* C21: write(p, d) changes only the entry at p: every path of the response
\* that neither begins p nor continues p holds afterwards what it held
\* before, and the input data is not changed by write.
C21_WriteChangesOnlyItsEntry ==
    C21_SiblingsKept /\ C21_InputKept

\* the response and the input hold in h2 what they held in h1, and
\* response() does on h2 what it did on h1
C22_SameResponse(h1, h2) ==
    /\ C21_Unchanged(h1, h2, C21_Reach(h1, {response, in_data}, Len(h1)))
    /\ OrbitIO_response(h1).ok = OrbitIO_response(h2).ok
    /\ OrbitIO_response(h1).err = OrbitIO_response(h2).err

\* C22: write with an empty path raises ValueError 'Data path is empty!',
\* write_geo with a kind outside the six GeoJSON types raises ValueError
\* 'Invalid geo type', write_geo with empty or non-list coordinates raises
\* ValueError 'Invalid coordinates', and whenever write or write_geo raises,
\* the response holds what it held before and response() does what it did
\* before the call.
C22_RejectedChangesNothing ==
    LET rejected(msg) ==
            ~ret.ok /\ ret.err.type = "ValueError" /\ ret.err.msg = msg
        geo == fn = "write_geo"
        known == geo /\ arg.kind \in {"Point", "LineString", "Polygon", "MultiPoint",
                                      "MultiLineString", "MultiPolygon"}
    IN  /\ fn = "write" /\ Len(arg.data_path) = 0 => rejected("Data path is empty!")
        /\ geo /\ ~known => rejected("Invalid geo type")
        /\ known /\ (arg.coordinates.t # "list" \/ Len(arg.coordinates.v) = 0)
           => rejected("Invalid coordinates")
        /\ fn \in {"write", "write_geo"} /\ ~ret.ok => C22_SameResponse(heap0, heap)

\* write_geo rejected for its coordinates after a write that succeeded
C22_Witness ==
    /\ fn = "write_geo"
    /\ ~ret.ok
    /\ ret.err.type = "ValueError"
    /\ ret.err.msg = "Invalid coordinates"
    /\ succeeded
    /\ DOMAIN heap[response].items # {}
    /\ C22_SameResponse(heap0, heap)

----------------------------------------------------------------------------
(* Data URL tags: C23 *)

\* the format a payload is in, by its first bytes: the image formats, the
\* plain npy stream, the zip archive of npz; <<>> when it is none of them
C23_Format(payload) ==
    CASE StartsWith(payload, <<147, 78, 85, 77, 80, 89>>) -> <<"n", "p", "y">>
      [] StartsWith(payload, <<80, 75, 3, 4>>)             -> <<"n", "p", "z">>
      [] StartsWith(payload, <<255, 216>>)                 -> <<"j", "p", "g">>
      [] StartsWith(payload, <<71, 73>>)                   -> <<"g", "i", "f">>
      [] StartsWith(payload, <<137, 80>>)                  -> <<"p", "n", "g">>
      [] StartsWith(payload, <<66, 77>>)                   -> <<"b", "m", "p">>
      [] StartsWith(payload, <<73, 73>>)                   -> <<"t", "i", "f">>
      [] StartsWith(payload, <<77, 77>>)                   -> <<"t", "i", "f">>
      [] OTHER                                             -> <<>>

\* C23: every data URL that ndarray_to_data_url or imagefile_to_data_url
\* returns carries the subtype that names the format of its payload: png
\* on PNG bytes, the format of the file's magic bytes on an image file, npz
\* on an npz archive and npy on a plain npy stream.
C23_TagNamesPayload ==
    fn \in {"ndarray_to_data_url", "imagefile_to_data_url"} /\ ret.ok =>
        LET parts == parse_data_url(ret.val)
            payload == base64decode(parts.val[4])
        IN  /\ parts.ok
            /\ payload.ok
            /\ parts.val[1] = (IF C23_Format(payload.val) \in {<<"n", "p", "y">>, <<"n", "p", "z">>}
                               THEN <<"n", "d", "a", "r", "r", "a", "y">>
                               ELSE <<"i", "m", "a", "g", "e">>)
            /\ parts.val[2] = C23_Format(payload.val)

====
